---- MODULE Spec2Model ----
(***************************************************************************)
(* Model of lib/interface.py: one TcpInterface worker thread per           *)
(* connection, its owner thread (send_request / stop), the remote server   *)
(* (frames, closes, handshake outcomes) and the on-disk certificate store  *)
(* used for trust-on-first-use pinning.                                    *)
(***************************************************************************)
EXTENDS Integers, Sequences, FiniteSets, TLC

\* ---------------------------------------------------------------- bounds
MaxWorkers == 3      \* interface objects the owner constructs, one after another
MaxSubmit  == 1      \* send_request calls by the owner per interface
MaxRecv    == 2      \* frames the server delivers per connection
MaxTicks   == 1      \* clock advances per connection

\* ------------------------------------------------------- program constants
CS_OPENING   == 0
CS_CONNECTED == 1
CS_FAILED    == 2
PingInterval   == 60
RequestTimeout == 10
IdleTimeout    == 10

\* ----------------------------------------------------------- value spaces
None == "None"          \* Python None for string-valued fields
NoId == -1              \* Python None for the integer 'id' of a frame
NoFile == << >>         \* a path that does not exist

Hosts     == {"h.x"}
Protocols == {"s", "t"}

\* Scheme parts of the server strings an owner may pass to the factory.
Schemes   == {"", "s", "t", "st", "ts", "x"}

\* Python's "a in b" for two strings: a is a substring of b.
IsSubstring(a, b) ==
  \E i \in 1..(Len(b) + 1), j \in 0..Len(b) : SubSeq(b, i, j) = a

\* "if protocol in 'st':", line 47
AcceptsProtocol(protocol) == IsSubstring(protocol, "st")

\* Certificates a server may present.  "self1"/"self2" are self-signed,
\* "pub" chains to the system CA bundle and names host "h", "pubx" chains to
\* the CA bundle but names another host, "pubcn" chains to the CA bundle,
\* has no subjectAltName and names host "h" in its common name.
Certs     == {"self1", "self2", "pub", "pubx", "pubcn"}
CaSigned  == {"pub", "pubx", "pubcn", "pubcnx"}

VARIABLES
  gen,                  \* number of interface objects constructed so far
  host, use_ssl,        \* self.host, self.use_ssl
  protocol,             \* self.protocol
  pc,                   \* position of the worker thread inside run()
  status,               \* self._status
  disconnect,           \* self.disconnect
  message_id,           \* self.message_id
  request_queue,        \* self.request_queue: Seq of <<request, response_queue>>
  unanswered_requests,  \* self.unanswered_requests: id -> [method, params, id, queue]
  request_time,         \* self.request_time
  ping_time,            \* self.ping_time
  recv_time,            \* pipe.recv_time (time of last received data)
  server_version,       \* self.server_version
  now,                  \* time.time()
  sock,                 \* the socket s of run(): "none" | "open" | "closed",
                        \* "eof" once the remote side has closed it
  response_queue,       \* owner's shared queue: everything ever put on it
  caller_queue,         \* a caller-supplied reply queue: everything ever put on it
  wire,                 \* frames handed to pipe.send successfully, in order
  files,                \* the certificate directory: path -> contents of the file
  threads,              \* get_socket calls of further interfaces running concurrently
  codec,                \* a call of the pem module: its arguments, position and result
  expired,              \* certificates whose validity window has elapsed
  served,               \* certificates the server side may present in this run
  attempt,              \* record of what get_socket did in this interface
  exc,                  \* the exception that ended the worker thread, if any
                        \* ("get_socket": one raised inside get_socket)
  answered,             \* ids of the response frames for which a message was put
  nSubmit, nRecv, nTicks

vars == << gen, host, use_ssl, protocol, pc, status, disconnect, message_id, request_queue,
           unanswered_requests, request_time, ping_time, recv_time,
           server_version, now, sock, response_queue, caller_queue, wire,
           files, threads, codec, expired, served, attempt, exc, answered,
           nSubmit, nRecv, nTicks >>


\* ----------------------------------------------------------------------
\* Host-name check (check_host_name / _match_hostname)
\* ----------------------------------------------------------------------
\* Names are strings, modelled as sequences of characters.
HostName(h) ==
  IF h = "h.x" THEN <<"h", ".", "x">>
  ELSE <<"h", ".", "x", ".", "t", "e", "m", "p">>

startswith(val, p) == Len(val) >= Len(p) /\ SubSeq(val, 1, Len(p)) = p
endswith(name, sfx) ==
  Len(name) >= Len(sfx) /\ SubSeq(name, Len(name) - Len(sfx) + 1, Len(name)) = sfx

_match_hostname_Any(name, val) == TRUE

_match_hostname(name, val) ==
  \/ val = name
  \/ /\ startswith(val, <<"*", ".">>)
     /\ endswith(name, SubSeq(val, 2, Len(val)))

\* What getpeercert() returns after a CA-validated handshake.  "hasSan" is
\* has_key("subjectAltName"); "subject" is, as the ssl module delivers it, a
\* sequence of relative distinguished names, each a sequence of (attr, val)
\* pairs.
PeerCert(c) ==
  CASE c = "pub"   -> [empty |-> FALSE, hasSan |-> TRUE,
                       san |-> << <<"DNS", <<"*", ".", "x">> >> >>,
                       subject |-> << << <<"commonName", <<"o", ".", "x">> >> >> >>]
    [] c = "pubx"  -> [empty |-> FALSE, hasSan |-> TRUE,
                       san |-> << <<"DNS", <<"o", ".", "x">> >> >>,
                       subject |-> << << <<"commonName", <<"h", ".", "x">> >> >> >>]
    [] c = "pubcn" -> [empty |-> FALSE, hasSan |-> FALSE, san |-> << >>,
                       subject |-> << << <<"countryName", <<"U", "S">> >> >>,
                                      << <<"commonName", <<"h", ".", "x">> >> >> >>]
    [] c = "pubcnx" -> [empty |-> FALSE, hasSan |-> FALSE, san |-> << >>,
                        subject |-> << << <<"countryName", <<"U", "S">> >> >>,
                                       << <<"commonName", <<"o", ".", "x">> >> >> >>]
    [] OTHER       -> [empty |-> TRUE, hasSan |-> FALSE, san |-> << >>, subject |-> << >>]

\* "for attr, val in peercert['subject']": every element is unpacked into
\* exactly two values; an element of another length raises ValueError.
SubjectUnpacks(subject) == \A i \in DOMAIN subject : Len(subject[i]) = 2

RECURSIVE LastCommonName(_, _)
LastCommonName(subject, cn) ==
  IF subject = << >> THEN cn
  ELSE LET attr == Head(subject)[1]
           val  == Head(subject)[2]
       IN LastCommonName(Tail(subject), IF attr = "commonName" THEN val ELSE cn)

\* Result: "True", "False" or "raise".
check_host_name(peercert, name) ==
  IF peercert.empty THEN "False"
  ELSE IF peercert.hasSan
    THEN IF \E i \in DOMAIN peercert.san :
              peercert.san[i][1] = "DNS" /\ _match_hostname(name, peercert.san[i][2])
         THEN "True" ELSE "False"
    ELSE IF ~SubjectUnpacks(peercert.subject) THEN "raise"
    ELSE LET cn == LastCommonName(peercert.subject, << >>)
         IN IF cn # << >> /\ _match_hostname(name, cn) THEN "True" ELSE "False"


\* ----------------------------------------------------------------------
\* Certificate store and TLS handshakes
\* ----------------------------------------------------------------------
\* Hosts whose files the certificate directory may hold: those of Hosts and
\* one whose name is the name of another followed by ".temp".
StoreHosts == Hosts \cup {"h.x.temp"}

\* "os.path.join(self.config.path, 'certs', self.host)", line 144
cert_path(h) == "certs/" \o h

\* "cert_path + '.temp'", line 175
temporary_path(h) == cert_path(h) \o ".temp"

\* "cert_path + '.rej'", line 197
rej_path(h) == cert_path(h) \o ".rej"

Paths == UNION { {cert_path(h), temporary_path(h), rej_path(h)} : h \in StoreHosts }

\* The three files of each host, as the certificate directory holds them.
pin  == [h \in StoreHosts |-> files[cert_path(h)]]
temp == [h \in StoreHosts |-> files[temporary_path(h)]]
rej  == [h \in StoreHosts |-> files[rej_path(h)]]

\* The directory after an attempt for host h left res.pin, res.temp and
\* res.rej at the three paths of h.
WriteBack(f, h, res) ==
  [p \in Paths |-> IF p = rej_path(h) THEN res.rej
                   ELSE IF p = temporary_path(h) THEN res.temp
                   ELSE IF p = cert_path(h) THEN res.pin
                   ELSE f[p]]

\* ssl.DER_cert_to_PEM_cert: the PEM text holding one certificate block.
DER_cert_to_PEM_cert(dercert) == << dercert >>

\* The certificates a ca_certs file makes trusted.
LoadCerts(file) == { file[i] : i \in DOMAIN file }

\* ssl.wrap_socket(cert_reqs=CERT_REQUIRED, ca_certs=requests.certs.where()):
\* the handshake validates iff the presented chain ends in the CA bundle and
\* the certificate is inside its validity window.
ValidatesAgainstCA(c, exp) == c \in CaSigned /\ c \notin exp

ValidatesAgainstFile_Any(c, file, exp) == c \notin exp

\* ssl.wrap_socket(cert_reqs=CERT_REQUIRED, ca_certs=<file>): the handshake
\* validates iff the presented certificate is the one stored in the file and
\* is inside its validity window.
ValidatesAgainstFile(c, file, exp) == c \in LoadCerts(file) /\ c \notin exp

SockOutcomes   == {"ok", "ssl", "sock"}          \* success, ssl.SSLError, socket.error
FinalOutcomes  == {"ok", "ssl1", "ssl", "sock"}  \* ssl1: SSLError with errno 1

\* What the network and the server decide during one get_socket call, per
\* stage: whether get_simple_socket() returned a socket, how the handshake
\* ended and which certificate the server presented in it.
CaInputs(C)    == [ s : BOOLEAN, err : SockOutcomes, cert : C ]
CapInputs(C)   == [ s : BOOLEAN, err : SockOutcomes, cert : C ]
FinalInputs(C) == [ s : BOOLEAN, err : FinalOutcomes, cert : C,
                    x509ok : BOOLEAN ]     \* pem.dePem / x509.X509 parse the stored pin

NoAttempt ==
  [ is_new |-> "none", ret |-> "none", pinAtStart |-> NoFile, rejAtStart |-> NoFile,
    tempAtStart |-> NoFile, expiredAtStart |-> {},
    caTried |-> FALSE, unvalidated |-> FALSE, captured |-> None,
    validated |-> "none", cafile |-> NoFile, presented |-> None, reached |-> FALSE,
    dateChecked |-> FALSE, caPresented |-> None,
    outcome |-> "none" ]     \* how wrap_socket of lines 187-191 ended

Result(r, st, att) ==
  [ret |-> r, pin |-> st.pin, temp |-> st.temp, rej |-> st.rej,
   att |-> [att EXCEPT !.ret = r]]

get_socket_plain_Stages(in, st) ==
  Result(IF in.s THEN "sock" ELSE "none", [st EXCEPT !.temp = << in.cert >>],
         [NoAttempt EXCEPT !.is_new = "plain", !.pinAtStart = st.pin,
                           !.rejAtStart = st.rej, !.tempAtStart = st.temp,
                           !.expiredAtStart = st.exp, !.unvalidated = TRUE])

\* get_socket for a plain endpoint (use_ssl false): lines 181-183, 230.
get_socket_plain(in, st) ==
  Result(IF in.s THEN "sock" ELSE "none", st,
         [NoAttempt EXCEPT !.is_new = "plain", !.pinAtStart = st.pin,
                           !.rejAtStart = st.rej, !.tempAtStart = st.temp,
                           !.expiredAtStart = st.exp])

RejectStaged_Unlinks(st) == [st EXCEPT !.temp = NoFile]

\* Which file ends up where when the handshake against a just-captured
\* certificate fails with errno 1: lines 196-200.
RejectStaged(st) == [st EXCEPT !.temp = NoFile, !.rej = st.temp]

RemoveExpiredPin_Keep(st) == st

\* "os.unlink(cert_path)", lines 211-216
RemoveExpiredPin(st) == [st EXCEPT !.pin = NoFile]

check_date_Raises(file, exp) == FALSE

\* "x.check_date()", line 212, for the certificate stored in file: TRUE when
\* it returns, FALSE when it raises (the validity period has expired).
check_date(file, exp) == file[1] \notin exp

PromoteStaged_Skip(st) == st

\* "os.rename(temporary_path, cert_path)", lines 226-228
PromoteStaged(st) == [st EXCEPT !.pin = st.temp, !.temp = NoFile]

\* The shared tail of get_socket, lines 181-230: open the socket, handshake
\* against cafile (temporary_path if is_new else cert_path), handle failures,
\* promote the staging file.  st is the store as left by the first part, att
\* the attempt record so far.
get_socket_final(in, st, is_new, att) ==
  LET cafile == IF is_new THEN st.temp ELSE st.pin
      \* outcome of wrap_socket at lines 187-191
      fin == IF in.err = "ok"
               THEN IF ValidatesAgainstFile(in.cert, cafile, st.exp) THEN "ok" ELSE "ssl1"
               ELSE in.err
      att1 == [att EXCEPT !.cafile = cafile, !.reached = in.s,
                          !.outcome = IF in.s THEN fin ELSE "none",
                          !.presented = IF in.s /\ in.err = "ok" THEN in.cert ELSE None]
  IN
  IF ~in.s THEN Result("none", st, att1)
  ELSE IF fin = "ssl1" THEN
         IF is_new THEN Result("none", RejectStaged(st), att1)
         ELSE IF ~in.x509ok THEN Result("none", st, att1)
         ELSE IF ~check_date(st.pin, st.exp)
           THEN Result("none", RemoveExpiredPin(st), [att1 EXCEPT !.dateChecked = TRUE])
         ELSE Result("none", st, [att1 EXCEPT !.dateChecked = TRUE])
  ELSE IF fin \in {"ssl", "sock"} THEN Result("none", st, att1)
  ELSE IF is_new
         THEN Result("sock", PromoteStaged(st), [att1 EXCEPT !.validated = "temp"])
         ELSE Result("sock", st, [att1 EXCEPT !.validated = "pin"])

\* First part of get_socket for a host without pin, lines 146-157: the
\* handshake against the CA bundle and the host-name check.  ret "go" means
\* the code goes on to retrieve the server certificate.
get_socket_ca(in, st, h, att) ==
  LET caOk   == in.err = "ok" /\ ValidatesAgainstCA(in.cert, st.exp)
      attCa  == [att EXCEPT !.caTried = TRUE,
                            !.caPresented = IF in.s /\ caOk THEN in.cert ELSE None]
      hostOk == IF caOk THEN check_host_name(PeerCert(in.cert), HostName(h)) ELSE "False"
  IN IF ~in.s THEN Result("none", st, att)
     ELSE IF in.err = "sock" THEN Result("raise", st, attCa)
     ELSE IF hostOk = "raise" THEN Result("raise", st, attCa)
     ELSE IF hostOk = "True"
       THEN Result("sock", st, [attCa EXCEPT !.validated = "ca", !.presented = in.cert])
     ELSE Result("go", st, attCa)

get_socket_capture_Keeps(in, st, att) ==
  IF ~in.s THEN Result("none", st, att)
  ELSE Result("sock", st, [att EXCEPT !.unvalidated = TRUE, !.captured = in.cert])

\* Second part for a host without pin, lines 159-177: a handshake with
\* CERT_NONE retrieves the certificate, which is written to the staging file.
get_socket_capture(in, st, att) ==
  LET attU == [att EXCEPT !.unvalidated = TRUE] IN
  IF ~in.s THEN Result("none", st, att)
  ELSE IF in.err = "ssl" THEN Result("none", st, attU)
  ELSE IF in.err = "sock" THEN Result("raise", st, attU)
  ELSE Result("go", [st EXCEPT !.temp = DER_cert_to_PEM_cert(in.cert)],
              [attU EXCEPT !.captured = in.cert])

StoreOf(res, exp) == [pin |-> res.pin, temp |-> res.temp, rej |-> res.rej, exp |-> exp]

get_socket_AlwaysNew(st, h, ssl, C) ==
  LET att0 == [NoAttempt EXCEPT !.pinAtStart = st.pin, !.rejAtStart = st.rej,
                                !.tempAtStart = st.temp, !.expiredAtStart = st.exp]
  IN
  IF ~ssl THEN { get_socket_plain(in, st) : in \in FinalInputs(C) }
  ELSE
    LET ca  == { get_socket_ca(in, st, h, [att0 EXCEPT !.is_new = "new"]) : in \in CaInputs(C) }
        cap == UNION { { get_socket_capture(in, StoreOf(r, st.exp), r.att) : in \in CapInputs(C) }
                       : r \in { x \in ca : x.ret = "go" } }
        fin == UNION { { get_socket_final(in, StoreOf(r, st.exp), TRUE, r.att) :
                           in \in FinalInputs(C) }
                       : r \in { x \in cap : x.ret = "go" } }
    IN { x \in ca : x.ret # "go" } \cup { x \in cap : x.ret # "go" } \cup fin

\* get_socket, lines 142-230: every result the call can have in store st =
\* [pin, temp, rej, exp] (the files of host h and the expired certificates).
\* ret is "sock" (a socket is returned), "none" (None is returned) or "raise"
\* (an exception leaves get_socket).  C are the certificates the server side
\* may present.
get_socket(st, h, ssl, C) ==
  LET att0 == [NoAttempt EXCEPT !.pinAtStart = st.pin, !.rejAtStart = st.rej,
                                !.tempAtStart = st.temp, !.expiredAtStart = st.exp]
  IN
  IF ~ssl THEN { get_socket_plain(in, st) : in \in FinalInputs(C) }
  ELSE IF st.pin = NoFile THEN
    LET ca  == { get_socket_ca(in, st, h, [att0 EXCEPT !.is_new = "new"]) : in \in CaInputs(C) }
        cap == UNION { { get_socket_capture(in, StoreOf(r, st.exp), r.att) : in \in CapInputs(C) }
                       : r \in { x \in ca : x.ret = "go" } }
        fin == UNION { { get_socket_final(in, StoreOf(r, st.exp), TRUE, r.att) :
                           in \in FinalInputs(C) }
                       : r \in { x \in cap : x.ret = "go" } }
    IN { x \in ca : x.ret # "go" } \cup { x \in cap : x.ret # "go" } \cup fin
  ELSE { get_socket_final(in, st, FALSE, [att0 EXCEPT !.is_new = "old"]) :
           in \in FinalInputs(C) }



\* ----------------------------------------------------------------------
\* lib/pem.py
\* ----------------------------------------------------------------------
\* Text is a sequence of characters, a payload a sequence of bytes (0..255).
Chars(str) == [i \in 1..Len(str) |-> SubSeq(str, i, i)]

NoCall == [pc |-> "none", b |-> << >>, name |-> << >>, s |-> << >>,
           exc |-> None, ret |-> << >>]

\* The base64 alphabet of binascii: the character of each 6-bit value.
table_b2a_base64 ==
  Chars("ABCDEFGHIJKLMNOPQRSTUVWXYZabcdefghijklmnopqrstuvwxyz0123456789+/")
BASE64_PAD == "="

ByteAt(b, i) == IF i <= Len(b) THEN b[i] ELSE 0

\* The k-th (from 0) group of six bits of the bits of b, filled with zeros.
Sextet(b, k) ==
  LET idx == (6 * k) \div 8
      off == (6 * k) % 8
      two == ByteAt(b, idx + 1) * 256 + ByteAt(b, idx + 2)
  IN (two \div 2^(10 - off)) % 64

\* b2a_base64, lines 17-18 (binascii.b2a_base64): one line of base64 text,
\* padded to a multiple of four characters, and a newline.
b2a_base64(b) ==
  LET nch == (8 * Len(b) + 5) \div 6
      padded == 4 * ((Len(b) + 2) \div 3)
  IN [k \in 1..padded |-> IF k <= nch THEN table_b2a_base64[Sextet(b, k - 1) + 1]
                                      ELSE BASE64_PAD] \o << "\n" >>

\* table_a2b_base64 of binascii: the characters it does not skip, and the
\* value of each.
ValidBase64(c) ==
  c = BASE64_PAD \/ \E v \in DOMAIN table_b2a_base64 : table_b2a_base64[v] = c
table_a2b_base64(c) ==
  IF c = BASE64_PAD THEN 0
  ELSE (CHOOSE v \in DOMAIN table_b2a_base64 : table_b2a_base64[v] = c) - 1

\* binascii_find_valid: the (num+1)-th valid character of s from position
\* i on, "" when there is none.
RECURSIVE binascii_find_valid(_, _, _)
binascii_find_valid(s, i, num) ==
  IF i > Len(s) THEN ""
  ELSE IF ValidBase64(s[i])
    THEN IF num = 0 THEN s[i] ELSE binascii_find_valid(s, i + 1, num - 1)
  ELSE binascii_find_valid(s, i + 1, num)

\* The characters the decoding loop takes bits from.
IsData(c) == c # BASE64_PAD /\ ValidBase64(c)

\* quad_pos when the loop of binascii.a2b_base64 is at position i: the
\* number of data characters before i, modulo 4.
quad_pos(s, i) == Len(SelectSeq(SubSeq(s, 1, i - 1), IsData)) % 4

\* The position where the loop breaks: the first pad character that is a
\* pad sequence ("no more input"); Len(s) + 1 when the loop runs to the end.
\* A pad with quad_pos < 2, or with quad_pos = 2 and no second pad after
\* it, is skipped.
PadBreak(s) ==
  LET stops == { i \in 1..Len(s) :
                   /\ s[i] = BASE64_PAD
                   /\ ~ \/ quad_pos(s, i) < 2
                        \/ /\ quad_pos(s, i) = 2
                           /\ binascii_find_valid(s, i, 1) # BASE64_PAD }
  IN IF stops = {} THEN Len(s) + 1 ELSE CHOOSE i \in stops : \A j \in stops : i <= j

DataAt(d, i) == IF i <= Len(d) THEN table_a2b_base64(d[i]) ELSE 0

\* The k-th (from 0) byte the loop emits from the data characters d: each
\* character shifts six bits into leftchar, every eight bits leave as a byte.
Octet(d, k) ==
  LET idx == (8 * k) \div 6
      off == (8 * k) % 6
      three == DataAt(d, idx + 1) * 4096 + DataAt(d, idx + 2) * 64 + DataAt(d, idx + 3)
  IN (three \div 2^(10 - off)) % 256

\* a2b_base64, lines 10-15: the bytes binascii.a2b_base64 decodes (characters
\* outside the alphabet are skipped, a pad sequence ends the input), or
\* SyntaxError when it raises: bits are left over and no pad sequence ended
\* the input (incorrect padding).
a2b_base64(s) ==
  LET end == PadBreak(s)
      d == SelectSeq(SubSeq(s, 1, end - 1), IsData)
      leftbits == IF end <= Len(s) THEN 0 ELSE (6 * Len(d)) % 8
  IN IF leftbits # 0 THEN [exc |-> "SyntaxError", ret |-> << >>]
     ELSE [exc |-> None, ret |-> [k \in 1..((6 * Len(d)) \div 8) |-> Octet(d, k - 1)]]

\* str.find(sub, from): the least index (from 0) at or after from where sub
\* occurs in s, -1 when there is none.
find(s, sub, from) ==
  LET hits == { i \in from..(Len(s) - Len(sub)) : SubSeq(s, i + 1, i + Len(sub)) = sub }
  IN IF hits = {} THEN -1 ELSE CHOOSE i \in hits : \A j \in hits : i <= j

Prefix(name)  == Chars("-----BEGIN ") \o name \o Chars("-----")
Postfix(name) == Chars("-----END ") \o name \o Chars("-----")

\* dePem, lines 21-46
dePem(s, name) ==
  LET start == find(s, Prefix(name), 0)
      end   == find(s, Postfix(name), start + Len(Prefix(name)))
  IN IF start = -1 THEN [exc |-> "SyntaxError", ret |-> << >>]
     ELSE IF end = -1 THEN [exc |-> "SyntaxError", ret |-> << >>]
     ELSE a2b_base64(SubSeq(s, start + Len(Prefix(name)) + 1, end))

LineLength == 64

Wrap_FirstLine(s1) ==
  IF s1 = << >> THEN << >>
  ELSE SubSeq(s1, 1, IF Len(s1) < LineLength THEN Len(s1) ELSE LineLength) \o << "\n" >>

\* "while s1: s2 += s1[:64] + '\n'; s1 = s1[64:]", lines 99-102
RECURSIVE Wrap(_)
Wrap(s1) ==
  IF s1 = << >> THEN << >>
  ELSE IF Len(s1) <= LineLength THEN s1 \o << "\n" >>
  ELSE SubSeq(s1, 1, LineLength) \o << "\n" >> \o Wrap(SubSeq(s1, LineLength + 1, Len(s1)))

\* pem, lines 86-105
pem(b, name) ==
  LET a  == b2a_base64(b)
      s1 == SubSeq(a, 1, Len(a) - 1)
      s2 == Wrap(s1)
  IN Prefix(name) \o << "\n" >> \o s2 \o Postfix(name) \o << "\n" >>

AfterBlock_Nothing(s, end, name) == << >>

\* "s = s[end+len(postfix) : ]", line 84
AfterBlock(s, end, name) == SubSeq(s, end + Len(Postfix(name)) + 1, Len(s))

\* dePemList, lines 48-84: the loop, with the list bList built so far.
RECURSIVE dePemListLoop(_, _, _)
dePemListLoop(s, name, bList) ==
  LET start == find(s, Prefix(name), 0)
      end   == find(s, Postfix(name), start + Len(Prefix(name)))
      retBytes == a2b_base64(SubSeq(s, start + Len(Prefix(name)) + 1, end))
  IN IF start = -1 THEN [exc |-> None, ret |-> bList]
     ELSE IF end = -1 THEN [exc |-> "SyntaxError", ret |-> << >>]
     ELSE IF retBytes.exc # None THEN [exc |-> retBytes.exc, ret |-> << >>]
     ELSE dePemListLoop(AfterBlock(s, end, name), name, Append(bList, retBytes.ret))

dePemList(s, name) == dePemListLoop(s, name, << >>)


\* ----------------------------------------------------------------------
\* Requests the owner submits: request.get('method'), .get('params'), .get('id').
Requests ==
  { [method |-> "server.version", params |-> <<"v">>, id |-> "c1"],
    [method |-> "blockchain.address.subscribe", params |-> <<"addr">>, id |-> None] }

\* response_queue argument of send_request: None or a queue of the caller.
ReplyTargets == {None, "caller"}

\* The send_request calls the owner makes.  (A server.version request with
\* the default reply target is what maybe_ping submits.)
Submissions ==
  { << r, q >> \in Requests \X ReplyTargets :
      r.method = "server.version" => q = "caller" }

\* The keepalive request of maybe_ping.
PingRequest ==
  [method |-> "server.version", params |-> <<"ELECTRUM_VERSION", "PROTOCOL_VERSION">>,
   id |-> None]

\* Frames the server may deliver when the next unused id is m: responses to
\* any id up to m (sent, answered or never sent) and notifications, one of
\* them without the parameter the client indexes.
ResponseFrames(m) ==
  { [id |-> i, method |-> None, params |-> << >>, error |-> e[1], result |-> e[2]] :
      i \in 0..m, e \in { <<None, "res">>, <<"err", None>> } }
NotificationFrames ==
  { [id |-> NoId, method |-> "blockchain.numblocks.subscribe", params |-> <<"7">>,
     error |-> None, result |-> None],
    [id |-> NoId, method |-> "blockchain.headers.subscribe", params |-> << >>,
     error |-> None, result |-> None] }
Frames(m) == ResponseFrames(m) \cup NotificationFrames

\* notify_status: queue.put((self, None))
StatusSignal == [kind |-> "status", method |-> None, params |-> << >>,
                 value |-> None, id |-> None]

\* queue.put((self, {'method':..., 'params':..., 'error'|'result':..., 'id':...}))
Message(method, params, error, result, id) ==
  IF error # None
    THEN [kind |-> "error", method |-> method, params |-> params, value |-> error, id |-> id]
    ELSE [kind |-> "result", method |-> method, params |-> params, value |-> result, id |-> id]

Pop_Keep(d, k) == d

\* dict.pop(k): the dict without key k.
Pop(d, k) == [i \in DOMAIN d \ {k} |-> d[i]]

\* is_connected(), lines 255-257
is_connected == status = CS_CONNECTED /\ ~disconnect

ConsumedInternally_Never(method) == FALSE

\* "if method == 'server.version':", line 113
ConsumedInternally(method) == method = "server.version"

\* process_response, lines 83-120, as the effect of one frame on the pending
\* map u: the exception raised (None if none), the new pending map, the
\* queue the message goes to ("none" if nothing is put), the message, and
\* the server version recorded.
process_response(response, u) ==
  LET msg_id == response.id
      nothing == [exc |-> None, unanswered |-> u, target |-> "none",
                  msg |-> StatusSignal, version |-> None, setVersion |-> FALSE]
  IN
  IF msg_id # NoId THEN
    IF msg_id \notin DOMAIN u THEN [nothing EXCEPT !.exc = "KeyError"]
    ELSE
      LET r == u[msg_id]
          queue == IF r.queue = None THEN "owner" ELSE r.queue
      IN IF ConsumedInternally(r.method)
           THEN [nothing EXCEPT !.unanswered = Pop(u, msg_id),
                                !.version = response.result, !.setVersion = TRUE]
           ELSE [nothing EXCEPT !.unanswered = Pop(u, msg_id), !.target = queue,
                                !.msg = Message(r.method, r.params, response.error,
                                                response.result, r.id)]
  ELSE
    LET method == response.method
        params == response.params
        short  == \/ /\ method \in {"blockchain.numblocks.subscribe",
                                    "blockchain.headers.subscribe"}
                     /\ Len(params) < 1
                  \/ /\ method = "blockchain.address.subscribe"
                     /\ Len(params) < 2
        result == IF method \in {"blockchain.numblocks.subscribe",
                                 "blockchain.headers.subscribe"} THEN params[1]
                  ELSE IF method = "blockchain.address.subscribe" THEN params[2]
                  ELSE response.result
        params2 == IF method \in {"blockchain.numblocks.subscribe",
                                  "blockchain.headers.subscribe"} THEN << >>
                   ELSE IF method = "blockchain.address.subscribe" THEN << params[1] >>
                   ELSE params
    IN IF short THEN [nothing EXCEPT !.exc = "IndexError"]
       ELSE IF ConsumedInternally(method)
         THEN [nothing EXCEPT !.version = result, !.setVersion = TRUE]
         ELSE [nothing EXCEPT !.target = "owner",
                              !.msg = Message(method, params2, response.error, result, None)]


\* ----------------------------------------------------------------------
\* Initial state: the first interface object has been constructed (__init__,
\* lines 57-78) and started; the certificate store is empty.
\* ----------------------------------------------------------------------
StartTime == 61      \* time.time() at construction; any value above PingInterval
TickSteps == {11, 61}

ConnInit(h, p) ==
  /\ host = h
  /\ protocol = p
  /\ use_ssl = (p = "s")
  /\ pc = "start"
  /\ status = CS_OPENING
  /\ disconnect = FALSE
  /\ message_id = 0
  /\ request_queue = << >>
  /\ unanswered_requests = << >>
  /\ request_time = now
  /\ ping_time = 0
  /\ recv_time = 0
  /\ server_version = None
  /\ sock = "none"
  /\ response_queue = << >>
  /\ caller_queue = << >>
  /\ wire = << >>
  /\ attempt = NoAttempt
  /\ exc = None
  /\ answered = << >>
  /\ nSubmit = 0 /\ nRecv = 0 /\ nTicks = 0

StoreInit ==
  /\ gen = 1
  /\ now = StartTime
  /\ files = [p \in Paths |-> NoFile]
  /\ threads = << >>
  /\ codec = NoCall
  /\ expired = {}

\* One server with one (self-signed) certificate.
Init ==
  /\ StoreInit
  /\ served = {"self1"}
  /\ \E h \in Hosts, p \in Protocols : ConnInit(h, p)

\* Any certificate may be presented in any handshake (the server changes
\* its certificate, or somebody else answers).
InitTrust ==
  /\ StoreInit
  /\ served = Certs
  /\ \E h \in Hosts, p \in Protocols : ConnInit(h, p)

\* ----------------------------------------------------------------------
\* Owner thread
\* ----------------------------------------------------------------------
Terminated == pc \in {"done", "crashed"}

\* Interface(server, response_queue, config), lines 35-78: the owner
\* constructs and starts a fresh interface after the previous one ended.
\* For a scheme the test of line 47 refuses, the factory raises
\* Exception('Unknown protocol') and constructs nothing.
Interface(h, p) ==
  /\ AcceptsProtocol(p)
  /\ Terminated
  /\ gen < MaxWorkers
  /\ gen' = gen + 1
  /\ host' = h
  /\ protocol' = p
  /\ use_ssl' = (p = "s")
  /\ pc' = "start"
  /\ status' = CS_OPENING
  /\ disconnect' = FALSE
  /\ message_id' = 0
  /\ request_queue' = << >>
  /\ unanswered_requests' = << >>
  /\ request_time' = now
  /\ ping_time' = 0
  /\ recv_time' = 0
  /\ server_version' = None
  /\ sock' = "none"
  /\ response_queue' = << >>
  /\ caller_queue' = << >>
  /\ wire' = << >>
  /\ attempt' = NoAttempt
  /\ exc' = None
  /\ answered' = << >>
  /\ nSubmit' = 0 /\ nRecv' = 0 /\ nTicks' = 0
  /\ UNCHANGED << now, files, threads, codec, expired, served >>

Put_Front(q, item) == << item >> \o q

Put_Twice(q, item) == q \o << item, item >>

\* Queue.put(item)
Put(q, item) == Append(q, item)

\* send_request(request, response_queue), lines 232-235
send_request(request, queue) ==
  /\ ~Terminated
  /\ nSubmit < MaxSubmit
  /\ request_time' = now
  /\ request_queue' = Put(request_queue, [request |-> request, queue |-> queue])
  /\ nSubmit' = nSubmit + 1
  /\ UNCHANGED << gen, host, use_ssl, protocol, codec, pc, status, disconnect, message_id,
                  unanswered_requests, ping_time, recv_time, server_version, now, sock,
                  response_queue, caller_queue, wire, files, threads, expired, served, attempt,
                  exc, answered, nRecv, nTicks >>

stop_Abrupt ==
  /\ ~Terminated
  /\ disconnect' = ~disconnect
  /\ request_queue' = << >>
  /\ UNCHANGED << gen, host, use_ssl, protocol, codec, pc, status, message_id,
                  unanswered_requests, request_time, ping_time, recv_time,
                  server_version, now, sock, response_queue, caller_queue, wire,
                  files, threads, expired, served, attempt, exc, answered,
                  nSubmit, nRecv, nTicks >>

\* stop(), lines 259-262
stop ==
  /\ ~Terminated
  /\ disconnect' = IF ~disconnect THEN TRUE ELSE disconnect
  /\ UNCHANGED << gen, host, use_ssl, protocol, codec, pc, status, message_id, request_queue,
                  unanswered_requests, request_time, ping_time, recv_time,
                  server_version, now, sock, response_queue, caller_queue, wire,
                  files, threads, expired, served, attempt, exc, answered,
                  nSubmit, nRecv, nTicks >>

\* ----------------------------------------------------------------------
\* Environment: the clock and certificate validity
\* ----------------------------------------------------------------------
\* Time advances while the worker blocks in pipe.get() (the bounded receive
\* wait); the other steps of an iteration read the clock of that moment.
Tick(d) ==
  /\ pc = "get"
  /\ nTicks < MaxTicks
  /\ now' = now + d
  /\ nTicks' = nTicks + 1
  /\ UNCHANGED << gen, host, use_ssl, protocol, codec, pc, status, disconnect, message_id, request_queue,
                  unanswered_requests, request_time, ping_time, recv_time,
                  server_version, sock, response_queue, caller_queue, wire,
                  files, threads, expired, served, attempt, exc, answered, nSubmit, nRecv >>

\* The validity window of a certificate elapses (observed between the
\* construction of an interface and its connection attempt).
CertExpires(c) ==
  /\ pc = "start"
  /\ c \notin expired
  /\ expired' = expired \cup {c}
  /\ UNCHANGED << gen, host, use_ssl, protocol, codec, pc, status, disconnect, message_id, request_queue,
                  unanswered_requests, request_time, ping_time, recv_time,
                  server_version, now, sock, response_queue, caller_queue, wire,
                  files, threads, served, attempt, exc, answered, nSubmit, nRecv, nTicks >>


\* ----------------------------------------------------------------------
\* Worker thread: run(), lines 287-306
\* ----------------------------------------------------------------------
\* Lines 288-295 and 304-306 for the s is None case: get_socket, then either
\* status CONNECTED and the first notify_status, or status FAILED and the
\* only notify_status, or the exception of get_socket ends the thread.
Run_get_socket ==
  /\ pc = "start"
  /\ \E res \in get_socket([pin |-> pin[host], temp |-> temp[host],
                               rej |-> rej[host], exp |-> expired], host, use_ssl,
                           served) :
          /\ files' = WriteBack(files, host, res)
          /\ attempt' = res.att
          /\ \/ /\ res.ret = "sock"
                /\ sock' = "open"
                /\ recv_time' = now
                /\ status' = CS_CONNECTED
                /\ response_queue' = Put(response_queue, StatusSignal)
                /\ pc' = "loop"
                /\ exc' = exc
             \/ /\ res.ret = "none"
                /\ status' = CS_FAILED
                /\ response_queue' = Put(response_queue, StatusSignal)
                /\ pc' = "done"
                /\ UNCHANGED << sock, recv_time, exc >>
             \/ /\ res.ret = "raise"
                /\ pc' = "crashed"
                /\ exc' = "get_socket"
                /\ UNCHANGED << sock, recv_time, status, response_queue >>
  /\ UNCHANGED << gen, host, use_ssl, protocol, codec, disconnect, message_id, request_queue,
                  unanswered_requests, request_time, ping_time, server_version, now,
                  caller_queue, wire, threads, expired, served, answered,
                  nSubmit, nRecv, nTicks >>

\* "while self.is_connected():", line 296
LoopTest ==
  /\ pc = "loop"
  /\ pc' = IF is_connected THEN "ping" ELSE "teardown"
  /\ UNCHANGED << gen, host, use_ssl, protocol, codec, status, disconnect, message_id, request_queue,
                  unanswered_requests, request_time, ping_time, recv_time,
                  server_version, now, sock, response_queue, caller_queue, wire,
                  files, threads, expired, served, attempt, exc, answered,
                  nSubmit, nRecv, nTicks >>

idle_time_Long == IdleTimeout + 1

\* pipe.idle_time(): time since data was last received
idle_time == now - recv_time

PingDue_Always(t, last) == TRUE

\* "time.time() - self.ping_time > 60", line 266
PingDue(t, last) == t - last > PingInterval

\* maybe_ping, lines 264-272
maybe_ping ==
  /\ pc = "ping"
  /\ LET ping == PingDue(now, ping_time)
         rt   == IF ping THEN now ELSE request_time
     IN /\ request_queue' = IF ping
                              THEN Put(request_queue,
                                       [request |-> PingRequest, queue |-> None])
                              ELSE request_queue
        /\ request_time' = rt
        /\ ping_time' = IF ping THEN now ELSE ping_time
        /\ disconnect' =
             IF /\ DOMAIN unanswered_requests # {}
                /\ now - rt > RequestTimeout
                /\ idle_time > IdleTimeout
             THEN TRUE ELSE disconnect
  /\ pc' = "send"
  /\ UNCHANGED << gen, host, use_ssl, protocol, codec, status, message_id, unanswered_requests,
                  recv_time, server_version, now, sock, response_queue, caller_queue,
                  wire, files, threads, expired, served, attempt, exc, answered,
                  nSubmit, nRecv, nTicks >>

NextMessageId_Stuck(m) == m

NextMessageId_Skips(m) == m + 2

\* "self.message_id += 1", line 253
NextMessageId(m) == m + 1

\* One pass of the while loop of send_requests, lines 239-253: test, take
\* one queued request, send it, record it; or leave the loop.
send_requests ==
  /\ pc = "send"
  /\ IF is_connected /\ request_queue # << >>
       THEN LET request == Head(request_queue).request
                r == [id |-> message_id, method |-> request.method,
                      params |-> request.params]
            IN /\ request_queue' = Tail(request_queue)
               /\ \/ \* pipe.send(r) succeeds
                     /\ wire' = Append(wire, [frame |-> r, ok |-> TRUE])
                     /\ unanswered_requests' =
                          [i \in DOMAIN unanswered_requests \cup {message_id} |->
                             IF i = message_id
                               THEN [method |-> request.method, params |-> request.params,
                                     id |-> request.id,
                                     queue |-> Head(request_queue).queue]
                               ELSE unanswered_requests[i]]
                     /\ message_id' = NextMessageId(message_id)
                     /\ UNCHANGED << pc, disconnect >>
                  \/ \* pipe.send(r) raises socket.error: stop(), return
                     /\ wire' = Append(wire, [frame |-> r, ok |-> FALSE])
                     /\ disconnect' = TRUE
                     /\ pc' = "recv"
                     /\ UNCHANGED << unanswered_requests, message_id >>
       ELSE /\ pc' = "recv"
            /\ UNCHANGED << request_queue, wire, unanswered_requests, message_id,
                            disconnect >>
  /\ UNCHANGED << gen, host, use_ssl, protocol, codec, status, request_time, ping_time, recv_time,
                  server_version, now, sock, response_queue, caller_queue,
                  files, threads, expired, served, attempt, exc, answered,
                  nSubmit, nRecv, nTicks >>

\* "if self.is_connected():", line 275
RecvTest ==
  /\ pc = "recv"
  /\ pc' = IF is_connected THEN "get" ELSE "loop"
  /\ UNCHANGED << gen, host, use_ssl, protocol, codec, status, disconnect, message_id, request_queue,
                  unanswered_requests, request_time, ping_time, recv_time,
                  server_version, now, sock, response_queue, caller_queue, wire,
                  files, threads, expired, served, attempt, exc, answered,
                  nSubmit, nRecv, nTicks >>

\* pipe.get() raises util.timeout: lines 277-279
PipeTimeout ==
  /\ pc = "get"
  /\ pc' = "loop"
  /\ UNCHANGED << gen, host, use_ssl, protocol, codec, status, disconnect, message_id, request_queue,
                  unanswered_requests, request_time, ping_time, recv_time,
                  server_version, now, sock, response_queue, caller_queue, wire,
                  files, threads, expired, served, attempt, exc, answered,
                  nSubmit, nRecv, nTicks >>

\* pipe.get() returns None (the remote side closed): lines 281-283
PipeClosed ==
  /\ pc = "get"
  /\ sock' = "eof"
  /\ disconnect' = TRUE
  /\ pc' = "loop"
  /\ UNCHANGED << gen, host, use_ssl, protocol, codec, status, message_id, request_queue,
                  unanswered_requests, request_time, ping_time, recv_time,
                  server_version, now, response_queue, caller_queue, wire,
                  files, threads, expired, served, attempt, exc, answered,
                  nSubmit, nRecv, nTicks >>

\* pipe.get() returns a frame, which process_response handles: lines 277, 285
PipeFrame(response) ==
  /\ pc = "get"
  /\ nRecv < MaxRecv
  /\ nRecv' = nRecv + 1
  /\ recv_time' = now
  /\ LET e == process_response(response, unanswered_requests)
     IN /\ exc' = e.exc
        /\ pc' = IF e.exc = None THEN "loop" ELSE "crashed"
        /\ unanswered_requests' = e.unanswered
        /\ server_version' = IF e.setVersion THEN e.version ELSE server_version
        /\ response_queue' = IF e.target = "owner" THEN Put(response_queue, e.msg)
                             ELSE response_queue
        /\ caller_queue' = IF e.target = "caller" THEN Put(caller_queue, e.msg)
                           ELSE caller_queue
        /\ answered' = IF e.target # "none" /\ response.id # NoId
                         THEN Append(answered, response.id) ELSE answered
  /\ UNCHANGED << gen, host, use_ssl, protocol, codec, status, disconnect, message_id, request_queue,
                  request_time, ping_time, now, sock, wire,
                  files, threads, expired, served, attempt, nSubmit, nTicks >>

Teardown_Reconnect ==
  /\ pc = "teardown"
  /\ sock' = "closed"
  /\ status' = CS_OPENING
  /\ pc' = "start"
  /\ UNCHANGED << gen, host, use_ssl, protocol, codec, disconnect, message_id, request_queue,
                  unanswered_requests, request_time, ping_time, recv_time,
                  server_version, now, caller_queue, wire, response_queue, exc,
                  files, threads, expired, served, attempt, answered, nSubmit, nRecv, nTicks >>

Teardown_Loops ==
  /\ pc = "teardown"
  /\ sock' = "closed"
  /\ status' = CS_FAILED
  /\ response_queue' = Put(response_queue, StatusSignal)
  /\ pc' = "loop"
  /\ UNCHANGED << gen, host, use_ssl, protocol, codec, disconnect, message_id, request_queue,
                  unanswered_requests, request_time, ping_time, recv_time,
                  server_version, now, caller_queue, wire, exc,
                  files, threads, expired, served, attempt, answered, nSubmit, nRecv, nTicks >>

\* Lines 300-306: shutdown and close the socket, status FAILED, notify the
\* owner.  s.shutdown raises socket.error when the socket is no longer
\* connected (the peer reset or closed it); the exception ends the thread.
Teardown ==
  /\ pc = "teardown"
  /\ \/ /\ sock' = "closed"
        /\ status' = CS_FAILED
        /\ response_queue' = Put(response_queue, StatusSignal)
        /\ pc' = "done"
        /\ exc' = exc
     \/ /\ exc' = "socket.error"
        /\ pc' = "crashed"
        /\ UNCHANGED << sock, status, response_queue >>
  /\ UNCHANGED << gen, host, use_ssl, protocol, codec, disconnect, message_id, request_queue,
                  unanswered_requests, request_time, ping_time, recv_time,
                  server_version, now, caller_queue, wire,
                  files, threads, expired, served, attempt, answered, nSubmit, nRecv, nTicks >>

\* One interface object, from construction to the end of its thread, with
\* its owner, the clock and the server.
Next ==
  \/ \E sb \in Submissions : send_request(sb[1], sb[2])
  \/ stop
  \/ \E d \in TickSteps : Tick(d)
  \/ Run_get_socket
  \/ LoopTest
  \/ maybe_ping
  \/ send_requests
  \/ RecvTest
  \/ PipeTimeout
  \/ PipeClosed
  \/ \E f \in Frames(message_id) : PipeFrame(f)
  \/ Teardown

Spec == Init /\ [][Next]_vars

\* Successive interface objects against one certificate store: the owner
\* constructs the next interface once the previous thread has ended, and
\* certificates expire in between; the owner submits nothing and the server
\* sends no frame.
NextTrust ==
  \/ \E h \in Hosts, p \in Schemes : Interface(h, p)
  \/ \E c \in Certs : CertExpires(c)
  \/ stop
  \/ Run_get_socket
  \/ LoopTest
  \/ maybe_ping
  \/ send_requests
  \/ RecvTest
  \/ PipeTimeout
  \/ PipeClosed
  \/ Teardown

\* One interface object started against a certificate directory left by
\* earlier runs (no pin, or a pin of any certificate, possibly expired); the
\* server side may present any certificate and sends frames; the owner only
\* stops the interface.
InitGate ==
  /\ gen = 1
  /\ now = StartTime
  /\ \E f \in {NoFile} \cup { DER_cert_to_PEM_cert(c) : c \in Certs } :
       files = [p \in Paths |-> IF p = cert_path("h.x") THEN f ELSE NoFile]
  /\ threads = << >>
  /\ codec = NoCall
  /\ expired \in {{}, {"self1"}}
  /\ served = Certs
  /\ \E h \in Hosts, p \in Protocols : ConnInit(h, p)

NextGate ==
  \/ stop
  \/ Run_get_socket
  \/ LoopTest
  \/ maybe_ping
  \/ send_requests
  \/ RecvTest
  \/ PipeTimeout
  \/ PipeClosed
  \/ \E f \in Frames(message_id) : PipeFrame(f)
  \/ Teardown

SpecGate == InitGate /\ [][NextGate]_vars

\* ----------------------------------------------------------------------
\* Calls of the pem module: a payload is encoded by pem and the text is
\* decoded by dePem.
\* ----------------------------------------------------------------------
MaxPayload == 97      \* bytes of a payload (97 bytes need three lines)

\* Payloads: n bytes starting at seed, each step more than the one before.
Payload(n, seed, step) == [i \in 1..n |-> (seed + step * (i - 1)) % 256]
Payloads ==
  { Payload(n, sd[1], sd[2]) :
      n \in 0..MaxPayload, sd \in { <<0, 0>>, <<255, 0>>, <<0, 37>>, <<251, 1>> } }
Labels == { Chars("X"), Chars("CERTIFICATE"), << >> }

InitPem ==
  /\ gen = 1
  /\ now = StartTime
  /\ files = [p \in Paths |-> NoFile]
  /\ threads = << >>
  /\ expired = {}
  /\ served = {}
  /\ ConnInit("h.x", "s")
  /\ \E b \in Payloads, name \in Labels :
       codec = [NoCall EXCEPT !.pc = "pem", !.b = b, !.name = name]

CodecOnly ==
  UNCHANGED << gen, host, use_ssl, protocol, pc, status, disconnect, message_id,
               request_queue, unanswered_requests, request_time, ping_time, recv_time,
               server_version, now, sock, response_queue, caller_queue, wire,
               files, threads, expired, served, attempt, exc, answered,
               nSubmit, nRecv, nTicks >>

\* s = pem(b, name)
Call_pem ==
  /\ codec.pc = "pem"
  /\ codec' = [codec EXCEPT !.s = pem(codec.b, codec.name), !.pc = "dePem"]
  /\ CodecOnly

\* dePem(s, name)
Call_dePem ==
  /\ codec.pc = "dePem"
  /\ LET r == dePem(codec.s, codec.name)
     IN codec' = [codec EXCEPT !.exc = r.exc, !.ret = r.ret, !.pc = "done"]
  /\ CodecOnly

NextPem ==
  \/ Call_pem
  \/ Call_dePem

SpecPem == InitPem /\ [][NextPem]_vars

\* Calls of dePemList on texts put together from up to MaxPieces pieces: a
\* block of the label with a payload, a block of the label whose content is
\* not base64 text, a prefix of the label without postfix, other text, and
\* a block of another label.
MaxPieces == 3

Pieces ==
  { [kind |-> "block", payload |-> p] : p \in { << >>, << 0 >>, << 255, 254, 253, 252 >> } }
  \cup { [kind |-> k, payload |-> << >>] : k \in {"bad64", "dangling", "text", "other"} }

PieceText(piece, name) ==
  CASE piece.kind = "block"    -> pem(piece.payload, name)
    [] piece.kind = "bad64"    -> Prefix(name) \o << "\n", "A", "\n" >> \o Postfix(name) \o << "\n" >>
    [] piece.kind = "dangling" -> Prefix(name) \o << "\n", "A", "A", "A", "A", "\n" >>
    [] piece.kind = "text"     -> Chars("Created by") \o << "\n" >>
    [] piece.kind = "other"    -> pem(<< 7 >>, Chars("Y"))

RECURSIVE Text(_, _)
Text(pieces, name) ==
  IF pieces = << >> THEN << >>
  ELSE PieceText(Head(pieces), name) \o Text(Tail(pieces), name)

InitPemList ==
  /\ gen = 1
  /\ now = StartTime
  /\ files = [p \in Paths |-> NoFile]
  /\ threads = << >>
  /\ expired = {}
  /\ served = {}
  /\ ConnInit("h.x", "s")
  /\ \E n \in 0..MaxPieces : \E pieces \in [1..n -> Pieces] :
       codec = [NoCall EXCEPT !.pc = "dePemList", !.b = pieces, !.name = Chars("X"),
                              !.s = Text(pieces, Chars("X"))]

\* dePemList(s, name)
Call_dePemList ==
  /\ codec.pc = "dePemList"
  /\ LET r == dePemList(codec.s, codec.name)
     IN codec' = [codec EXCEPT !.exc = r.exc, !.ret = r.ret, !.pc = "done"]
  /\ CodecOnly

NextPemList == Call_dePemList

SpecPemList == InitPemList /\ [][NextPemList]_vars

\* ----------------------------------------------------------------------
\* Calls of check_host_name(peercert, name): the certificate has up to
\* MaxNames subject alternative names or up to MaxNames attributes in its
\* subject, or is empty.
\* ----------------------------------------------------------------------
MaxNames == 2

CheckedHosts == { Chars("h.x"), Chars("a.h.x") }
CertNames == { Chars("h.x"), Chars("*.x"), Chars("*.h.x"), Chars("o.x"), Chars("x") }

SanEntries == { << "DNS", n >> : n \in CertNames } \cup { << "IP Address", Chars("h.x") >> }
SubjectEntries ==
  { << "commonName", n >> : n \in { Chars("h.x"), Chars("*.x"), Chars("o.x") } }
  \cup { << "countryName", Chars("US") >> }

SeqsUpTo(S, n) == UNION { [1..k -> S] : k \in 0..n }

PeerCerts ==
  { PeerCert("self1"), PeerCert("pubcn") }
  \cup { [empty |-> FALSE, hasSan |-> TRUE, san |-> san, subject |-> subj] :
           san \in SeqsUpTo(SanEntries, MaxNames),
           subj \in { << >>, << << "commonName", Chars("h.x") >> >> } }
  \cup { [empty |-> FALSE, hasSan |-> FALSE, san |-> << >>, subject |-> subj] :
           subj \in SeqsUpTo(SubjectEntries, MaxNames) }

InitHost ==
  /\ gen = 1
  /\ now = StartTime
  /\ files = [p \in Paths |-> NoFile]
  /\ threads = << >>
  /\ expired = {}
  /\ served = {}
  /\ ConnInit("h.x", "s")
  /\ \E peercert \in PeerCerts, name \in CheckedHosts :
       codec = [pc |-> "check_host_name", peercert |-> peercert, name |-> name,
                ret |-> None]

\* check_host_name(peercert, name)
Call_check_host_name ==
  /\ codec.pc = "check_host_name"
  /\ codec' = [codec EXCEPT !.ret = check_host_name(codec.peercert, codec.name),
                            !.pc = "done"]
  /\ CodecOnly

NextHost == Call_check_host_name

SpecHost == InitHost /\ [][NextHost]_vars

\* ----------------------------------------------------------------------
\* One call of process_response: a connected worker in its receive step,
\* with any pending map over the ids 0 and 1, receives any frame.
\* ----------------------------------------------------------------------
\* What send_requests records for a request (line 252).
PendingEntries ==
  { [method |-> sub[1].method, params |-> sub[1].params, id |-> sub[1].id,
     queue |-> sub[2]] : sub \in Submissions }
  \cup { [method |-> PingRequest.method, params |-> PingRequest.params,
          id |-> PingRequest.id, queue |-> None] }

PendingMaps ==
  UNION { [ids -> PendingEntries] : ids \in SUBSET {0, 1} }

\* Frames without id: the three subscription methods with and without the
\* parameters the client indexes, server.version, and another method.
AllNotificationFrames ==
  NotificationFrames \cup
  { [id |-> NoId, method |-> m[1], params |-> m[2], error |-> None, result |-> None] :
      m \in { <<"blockchain.headers.subscribe", <<"hdr">> >>,
              <<"blockchain.address.subscribe", <<"addr", "st">> >>,
              <<"blockchain.address.subscribe", <<"addr">> >>,
              <<"server.version", <<"v">> >>,
              <<"server.banner", <<"b">> >> } }

InitCorr ==
  /\ StoreInit
  /\ served = {"self1"}
  /\ host = "h.x" /\ protocol = "t" /\ use_ssl = FALSE
  /\ pc = "get"
  /\ status = CS_CONNECTED
  /\ disconnect = FALSE
  /\ message_id = 2
  /\ request_queue = << >>
  /\ unanswered_requests \in PendingMaps
  /\ request_time = now /\ ping_time = now /\ recv_time = now
  /\ server_version = None
  /\ sock = "open"
  /\ response_queue = << StatusSignal >>
  /\ caller_queue = << >>
  /\ wire = << >>
  /\ attempt = [NoAttempt EXCEPT !.is_new = "plain", !.ret = "sock"]
  /\ exc = None
  /\ answered = << >>
  /\ nSubmit = 0 /\ nRecv = 0 /\ nTicks = 0

NextCorr ==
  \E f \in ResponseFrames(message_id) \cup AllNotificationFrames : PipeFrame(f)

SpecCorr == InitCorr /\ [][NextCorr]_vars

\* The steps of the worker thread.
Worker ==
  \/ Run_get_socket
  \/ LoopTest
  \/ maybe_ping
  \/ send_requests
  \/ RecvTest
  \/ PipeTimeout
  \/ PipeClosed
  \/ \E f \in Frames(message_id) : PipeFrame(f)
  \/ Teardown

\* The same with a worker thread that keeps running: a started thread is
\* scheduled until run() returns or an exception ends it, and every call it
\* blocks in is bounded (connect and handshake timeouts, the receive wait of
\* pipe.get).
SpecLive == Init /\ [][Next]_vars /\ WF_vars(Worker)

SpecTrust == InitTrust /\ [][NextTrust]_vars

\* The same, for a server that presents a self-signed certificate or one of
\* two CA-signed certificates issued for another host, one with and one
\* without subject alternative name.
InitFirst ==
  /\ StoreInit
  /\ served = {"self1", "pubx", "pubcnx"}
  /\ \E h \in Hosts, p \in Protocols : ConnInit(h, p)

SpecFirst == InitFirst /\ [][NextTrust]_vars


\* ----------------------------------------------------------------------
\* Several interfaces connecting at the same time (server discovery): each
\* thread runs get_socket on the one certificate directory.  The call is
\* split where it reads or writes the directory: the test of line 145, the
\* CA attempt of lines 147-157 (no file access), the write of the staging
\* file (lines 161-177), and the final handshake with what follows it
\* (lines 181-230).
\* ----------------------------------------------------------------------
MaxThreads == 2

\* ret: what get_socket returned ("sock", "none", "raise"), "go" while it runs.
ThreadInit(h) == [host |-> h, pc |-> "exists", is_new |-> FALSE, ret |-> "go"]

StoreView(h) == [pin |-> pin[h], temp |-> temp[h], rej |-> rej[h], exp |-> expired]

ConnVarsUnchanged ==
  UNCHANGED << gen, host, use_ssl, protocol, codec, pc, status, disconnect, message_id,
               request_queue, unanswered_requests, request_time, ping_time, recv_time,
               server_version, now, sock, response_queue, caller_queue, wire,
               expired, served, attempt, exc, answered, nSubmit, nRecv, nTicks >>

\* "if not os.path.exists(cert_path): is_new = True ... else: is_new = False"
Conc_exists(w) ==
  /\ threads[w].pc = "exists"
  /\ LET new == pin[threads[w].host] = NoFile
     IN threads' = [threads EXCEPT ![w].is_new = new,
                                   ![w].pc = IF new THEN "ca" ELSE "final"]
  /\ UNCHANGED files
  /\ ConnVarsUnchanged

\* lines 147-157
Conc_ca(w) ==
  /\ threads[w].pc = "ca"
  /\ \E in \in CaInputs(served) :
       LET r == get_socket_ca(in, StoreView(threads[w].host), threads[w].host, NoAttempt)
       IN threads' = [threads EXCEPT ![w].pc = IF r.ret = "go" THEN "capture" ELSE "end",
                                     ![w].ret = r.ret]
  /\ UNCHANGED files
  /\ ConnVarsUnchanged

\* lines 161-177
Conc_capture(w) ==
  /\ threads[w].pc = "capture"
  /\ \E in \in CapInputs(served) :
       LET r == get_socket_capture(in, StoreView(threads[w].host), NoAttempt)
       IN /\ threads' = [threads EXCEPT ![w].pc = IF r.ret = "go" THEN "final" ELSE "end",
                                        ![w].ret = r.ret]
          /\ files' = WriteBack(files, threads[w].host, r)
  /\ ConnVarsUnchanged

\* lines 181-230.  ca_certs names the file found at this moment; when it is
\* gone (another thread renamed or removed it) wrap_socket fails without a
\* certificate verification error and get_socket returns None.  os.rename
\* replaces an existing destination.
Conc_final(w) ==
  /\ threads[w].pc = "final"
  /\ LET h == threads[w].host
         cafile == IF threads[w].is_new THEN temp[h] ELSE pin[h]
     IN IF cafile = NoFile
          THEN /\ threads' = [threads EXCEPT ![w].pc = "end", ![w].ret = "none"]
               /\ UNCHANGED files
          ELSE \E in \in FinalInputs(served) :
                 LET r == get_socket_final(in, StoreView(h), threads[w].is_new, NoAttempt)
                 IN /\ threads' = [threads EXCEPT ![w].pc = "end", ![w].ret = r.ret]
                    /\ files' = WriteBack(files, h, r)
  /\ ConnVarsUnchanged

\* The interfaces of this run: the first object is constructed but not
\* started; MaxThreads further ones, for any hosts, are inside get_socket.
InitStore ==
  /\ gen = 1
  /\ now = StartTime
  /\ files = [p \in Paths |-> NoFile]
  /\ expired = {}
  /\ served = {"self1", "self2"}
  /\ threads \in [1..MaxThreads -> { ThreadInit(h) : h \in StoreHosts }]
  /\ codec = NoCall
  /\ ConnInit("h.x", "s")

NextStore ==
  \/ \E w \in DOMAIN threads : Conc_exists(w)
  \/ \E w \in DOMAIN threads : Conc_ca(w)
  \/ \E w \in DOMAIN threads : Conc_capture(w)
  \/ \E w \in DOMAIN threads : Conc_final(w)

SpecStore == InitStore /\ [][NextStore]_vars


\* ----------------------------------------------------------------------
\* Properties
\* ----------------------------------------------------------------------
StatusSignals(q) == Cardinality({ i \in DOMAIN q : q[i].kind = "status" })

\* C1: the ids of the frames handed to the transport are strictly
\* increasing in send order, so no id is used for two requests.
C1_IdsStrictlyIncreasing ==
  \A i, j \in DOMAIN wire : i < j => wire[i].frame.id < wire[j].frame.id

W_C1_TwoFramesSent ==
  Len(wire) >= 2 /\ wire[1].ok /\ wire[2].ok /\ nSubmit >= 1

\* A step that answers pending request i (method other than server.version)
\* appends one message with the request's method, params and caller id to
\* the request's reply target and nothing to the other queue.
C2_DeliverStep ==
  \A i \in DOMAIN unanswered_requests :
    (gen' = gen /\ i \notin DOMAIN unanswered_requests'
       /\ unanswered_requests[i].method # "server.version") =>
      LET r == unanswered_requests[i]
          delivered(q, q2) ==
            /\ Len(q2) = Len(q) + 1
            /\ SubSeq(q2, 1, Len(q)) = q
            /\ q2[Len(q2)].kind \in {"result", "error"}
            /\ q2[Len(q2)].method = r.method
            /\ q2[Len(q2)].params = r.params
            /\ q2[Len(q2)].id = r.id
      IN /\ DOMAIN unanswered_requests' = DOMAIN unanswered_requests \ {i}
         /\ IF r.queue = None
              THEN delivered(response_queue, response_queue') /\ caller_queue' = caller_queue
              ELSE delivered(caller_queue, caller_queue') /\ response_queue' = response_queue

C2_NeverTwice ==
  \A i, j \in DOMAIN answered : i # j => answered[i] # answered[j]

\* C2: when a response frame matches a pending request whose method is not
\* server.version, exactly one message carrying that request's method,
\* params and caller id is put on the request's reply target (the caller's
\* queue, or the owner's shared queue when none was given) and the request
\* leaves the pending map; no response id is ever delivered twice.
C2_ResponseDeliveredOnce == [][C2_DeliverStep]_vars /\ []C2_NeverTwice

W_C2_DeliveredToCaller ==
  /\ caller_queue # << >>
  /\ answered # << >>
  /\ pc = "loop"
  /\ status = CS_CONNECTED

\* C3: a frame whose id matches no pending request never ends the worker:
\* the thread is never terminated by the failed lookup of the id.
C3_UnmatchedIdDropped ==
  pc = "crashed" => exc # "KeyError"

C4_Step ==
  gen' = gen =>
    /\ \/ status' = status
       \/ << status, status' >> \in { << CS_OPENING, CS_CONNECTED >>,
                                      << CS_OPENING, CS_FAILED >>,
                                      << CS_CONNECTED, CS_FAILED >> }
    /\ attempt # NoAttempt => attempt' = attempt
    /\ pc # "start" => pc' # "start"

\* C4: within one interface object the status only changes Opening ->
\* Connected, Opening -> Failed or Connected -> Failed (Failed is terminal,
\* Opening is never re-entered), and once get_socket has been called it is
\* never called again.
C4_StatusMonotonic == [][C4_Step]_vars

W_C4_ConnectedThenFailed ==
  pc = "done" /\ status = CS_FAILED /\ attempt.ret = "sock"

\* C5: every failure ends with the socket closed if it was opened, the
\* status Failed, and exactly one status signal for the failure on the
\* owner's queue.
C5_UniformTerminalAction ==
  Terminated =>
    /\ status = CS_FAILED
    /\ sock \notin {"open", "eof"}
    /\ StatusSignals(response_queue) = (IF attempt.ret = "sock" THEN 2 ELSE 1)

\* C6: whenever the worker thread has ended, the status is Failed.
C6_TerminalFailureObservable ==
  pc \in {"done", "crashed"} => status = CS_FAILED

C7_FrozenStep ==
  (gen' = gen /\ status = CS_FAILED) =>
    /\ unanswered_requests' = unanswered_requests
    /\ wire' = wire
    /\ response_queue' = response_queue
    /\ caller_queue' = caller_queue
    /\ status' = CS_FAILED

FirstContactSameCert ==          \* no pin; captured and re-presented certificate agree
  /\ attempt.is_new = "new"
  /\ attempt.captured # None
  /\ attempt.presented = attempt.captured
SecondContactSameCert ==         \* pin present; the server presented the pinned certificate
  /\ attempt.is_new = "old"
  /\ attempt.presented # None
  /\ attempt.presented \in LoadCerts(attempt.pinAtStart)
SecondContactOtherCert ==        \* pin present; the server presented another certificate
  /\ attempt.is_new = "old"
  /\ attempt.presented # None
  /\ attempt.presented \notin LoadCerts(attempt.pinAtStart)
StoreAsBefore ==
  /\ pin[host] = attempt.pinAtStart
  /\ temp[host] = attempt.tempAtStart
  /\ rej[host] = attempt.rejAtStart
ConnectedAfterAttempt ==
  /\ attempt.ret = "sock"
  /\ pc \notin {"start", "done"} => status = CS_CONNECTED
  /\ response_queue # << >> /\ Head(response_queue) = StatusSignal

\* C8 as stated: a first contact in which the server presents one
\* certificate pins it and the worker gets Connected; a later contact
\* presenting the pinned certificate succeeds and leaves the store unchanged.
C8_TofuAccepts ==
  /\ FirstContactSameCert =>
       ConnectedAfterAttempt /\ pin[host] = DER_cert_to_PEM_cert(attempt.captured)
  /\ SecondContactSameCert => ConnectedAfterAttempt /\ StoreAsBefore

\* C8 as amended: the same, for a certificate that is inside its validity
\* window at the time of the contact.
C8_TofuAcceptsUnexpired ==
  /\ (FirstContactSameCert /\ attempt.presented \notin attempt.expiredAtStart) =>
       /\ ConnectedAfterAttempt
       /\ pin[host] = DER_cert_to_PEM_cert(attempt.captured)
       /\ temp[host] = NoFile
  /\ (SecondContactSameCert /\ attempt.presented \notin attempt.expiredAtStart) =>
       ConnectedAfterAttempt /\ StoreAsBefore

W_C8_SecondContactAccepted ==
  /\ gen >= 2
  /\ SecondContactSameCert
  /\ attempt.ret = "sock"
  /\ status = CS_CONNECTED
  /\ pin[host] = attempt.pinAtStart

\* C9 as stated: a contact presenting a certificate other than the pinned
\* one fails, leaves a rejected-certificate file and leaves the pin untouched.
C9_MismatchLeavesRejected ==
  SecondContactOtherCert =>
    /\ attempt.ret = "none" /\ status = CS_FAILED /\ pc = "done"
    /\ rej[host] # NoFile
    /\ pin[host] = attempt.pinAtStart

\* C9 as amended: a contact presenting a certificate other than the pinned
\* one fails (Failed, never Connected) and creates no rejected-certificate
\* file: the rejected and staging files are as before the attempt, and the
\* pin is untouched unless it has expired, in which case it may be deleted.
C9_MismatchFails ==
  SecondContactOtherCert =>
    /\ attempt.ret = "none" /\ status = CS_FAILED /\ pc = "done"
    /\ StatusSignals(response_queue) = 1
    /\ rej[host] = attempt.rejAtStart
    /\ temp[host] = attempt.tempAtStart
    /\ \/ pin[host] = attempt.pinAtStart
       \/ /\ pin[host] = NoFile
          /\ LoadCerts(attempt.pinAtStart) \subseteq attempt.expiredAtStart

W_C9_MismatchSeen ==
  /\ SecondContactOtherCert
  /\ status = CS_FAILED
  /\ pin[host] = attempt.pinAtStart
  /\ rej[host] = NoFile

\* C10: an attempt for a TLS host that has a pin when the attempt starts
\* performs no handshake with validation disabled, does not try the CA
\* bundle and captures nothing; if it returns a socket, the handshake was
\* validated against the stored pin and the server presented that pin.
C10_PinnedNeverDowngrades ==
  (attempt.is_new \in {"new", "old"} /\ attempt.pinAtStart # NoFile) =>
    /\ ~attempt.unvalidated
    /\ ~attempt.caTried
    /\ attempt.captured = None
    /\ attempt.ret \in {"sock", "none"}
    /\ attempt.ret = "sock" =>
         /\ attempt.validated = "pin"
         /\ attempt.cafile = attempt.pinAtStart
         /\ attempt.presented \in LoadCerts(attempt.pinAtStart)

W_C10_PinnedValidated ==
  /\ attempt.pinAtStart # NoFile
  /\ attempt.validated = "pin"
  /\ sock = "open"


\* C11: a pin that exists is never replaced by other contents; it can only
\* be removed.
C11_PinNeverOverwritten ==
  [][\A h \in Hosts : pin[h] # NoFile => pin'[h] \in {pin[h], NoFile}]_vars


PinExpiredAtStart ==             \* pin present and its validity window elapsed
  /\ attempt.is_new = "old"
  /\ LoadCerts(attempt.pinAtStart) \subseteq attempt.expiredAtStart

\* C12 as stated: an attempt that finds an expired pin removes it and fails.
C12_ExpiredPinRemoved ==
  PinExpiredAtStart => (pin[host] = NoFile /\ status = CS_FAILED)

C12_Inv ==
  PinExpiredAtStart =>
    /\ attempt.ret = "none" /\ status = CS_FAILED /\ pc = "done"
    /\ temp[host] = attempt.tempAtStart
    /\ rej[host] = attempt.rejAtStart
    /\ pin[host] = (IF attempt.dateChecked THEN NoFile ELSE attempt.pinAtStart)

C12_Step ==
  (pc = "start" /\ pc' # "start" /\ use_ssl /\ pin[host] = NoFile) =>
    /\ attempt'.is_new = "new"
    /\ attempt'.caTried \/ attempt'.ret = "none"
    /\ attempt'.ret = "sock" =>
         \/ attempt'.validated = "ca" /\ pin'[host] = NoFile
         \/ /\ attempt'.validated = "temp"
            /\ pin'[host] = DER_cert_to_PEM_cert(attempt'.captured)

\* C12 as amended: an attempt that finds an expired pin always fails (the
\* worker reaches Failed, never Connected); it removes the pin when the
\* handshake is refused with a verification error and the stored pin parses
\* (the date check of line 212 is reached) and otherwise leaves the store
\* as it was; an attempt that finds no pin goes through the first-contact
\* protocol and, when it succeeds against the retrieved certificate, pins it.
C12_ExpiredPinFails == []C12_Inv /\ [][C12_Step]_vars

W_C12_ExpiredPinRemoved ==
  /\ PinExpiredAtStart
  /\ attempt.dateChecked
  /\ pin[host] = NoFile
  /\ status = CS_FAILED


\* A keepalive request of maybe_ping is among the pending requests; it was
\* sent in the pass that queued it, at ping_time or (an older one) before.
KeepalivePending ==
  \E i \in DOMAIN unanswered_requests :
    /\ unanswered_requests[i].method = PingRequest.method
    /\ unanswered_requests[i].params = PingRequest.params
    /\ unanswered_requests[i].queue = None

\* No frame for longer than the idle threshold while a request has been
\* unanswered for longer than the unanswered threshold.
Stale ==
  /\ status = CS_CONNECTED
  /\ KeepalivePending
  /\ now - ping_time > RequestTimeout
  /\ idle_time > IdleTimeout

\* C13: a pass of maybe_ping made while the connection is stale raises the
\* stop flag, so that the worker leaves its loop and goes to Failed, whatever
\* the owner did before the pass.
C13_StaleDetected ==
  (pc = "send" /\ Stale) => disconnect


\* C14: once the stop flag is set, the worker eventually has left its loop,
\* closed the socket and reached Failed.
C14_StopLeadsToFailed ==
  disconnect ~> (status = CS_FAILED /\ sock \notin {"open", "eof"})


C15_Step ==
  stop =>
    /\ disconnect' = TRUE
    /\ UNCHANGED << status, message_id, request_queue, unanswered_requests,
                    response_queue, caller_queue, request_time, ping_time, pc, sock,
                    wire, server_version, files >>

C15_Idempotent ==
  disconnect => ~ENABLED <<stop>>_vars

\* C15: a call of stop() leaves the stop flag set and changes nothing else
\* (status, message id counter, outbound queue, pending map, response
\* queues, timing state, socket, thread position), and a call made when the
\* flag is already set changes nothing at all.
C15_StopOnlyRaisesFlag == [][C15_Step]_vars /\ []C15_Idempotent

W_C15_StoppedInReceive ==
  /\ disconnect
  /\ pc = "get"
  /\ status = CS_CONNECTED
  /\ DOMAIN unanswered_requests # {}
  /\ request_queue # << >>


\* C16: no message with method server.version is ever put on the owner's
\* shared queue or on a caller's reply queue, whether the request was the
\* worker's keepalive or was submitted by a caller with its own reply queue.
C16_VersionNeverForwarded ==
  /\ \A i \in DOMAIN response_queue : response_queue[i].method # "server.version"
  /\ \A i \in DOMAIN caller_queue : caller_queue[i].method # "server.version"

W_C16_BothVersionsAnswered ==
  /\ Len(wire) = 2
  /\ \A i \in DOMAIN wire : wire[i].ok /\ wire[i].frame.method = "server.version"
  /\ wire[2].frame.params = <<"v">>
  /\ DOMAIN unanswered_requests = {}
  /\ server_version = "res"
  /\ pc = "loop"


\* A call made by the owner thread: send_request or stop.
OwnerCall ==
  \/ \E sb \in Submissions : send_request(sb[1], sb[2])
  \/ stop

\* C17: a call made by the owner thread writes no field other than the
\* outbound queue and the stop flag: the timing state, the message id
\* counter, the pending map and the status are left as they are.
C17_OwnerWritesOnlyQueuesAndFlag ==
  [][OwnerCall => UNCHANGED << request_time, ping_time, message_id,
                               unanswered_requests, status >>]_vars


\* C18: a step of a connection attempt for one host leaves the pin, the
\* staging file and the rejected file of every other host as they are.
C18_OtherHostsUntouched ==
  [][\A w \in DOMAIN threads :
       threads'[w] # threads[w] =>
         \A b \in StoreHosts \ {threads[w].host} :
           pin'[b] = pin[b] /\ temp'[b] = temp[b] /\ rej'[b] = rej[b]]_vars


\* The socket returned by get_socket comes from a handshake that validated
\* the presented certificate: against the CA bundle with a matching host
\* name, against the staging file holding the certificate just retrieved,
\* or against the pin found at the start.
ValidatedHandshake ==
  /\ attempt.ret = "sock"
  /\ attempt.presented # None
  /\ attempt.presented \notin attempt.expiredAtStart
  /\ CASE attempt.validated = "ca" ->
            /\ attempt.presented \in CaSigned
            /\ check_host_name(PeerCert(attempt.presented), HostName(host)) = "True"
       [] attempt.validated = "temp" ->
            /\ attempt.cafile = DER_cert_to_PEM_cert(attempt.captured)
            /\ attempt.presented \in LoadCerts(attempt.cafile)
       [] attempt.validated = "pin" ->
            /\ attempt.cafile = attempt.pinAtStart
            /\ attempt.presented \in LoadCerts(attempt.cafile)
       [] OTHER -> FALSE

\* C19: for a TLS endpoint the worker is Connected, holds a socket, has
\* sent a frame or has processed a frame only after a validated handshake;
\* the socket of the handshake with validation disabled is never the one
\* the worker uses.
C19_TrustGatesDataFlow ==
  (use_ssl /\ (status = CS_CONNECTED \/ sock # "none" \/ wire # << >> \/ nRecv > 0
                 \/ pc \in {"loop", "ping", "send", "recv", "get", "teardown"}))
    => ValidatedHandshake

W_C19_DataAfterRetrieval ==
  /\ use_ssl
  /\ attempt.unvalidated
  /\ attempt.validated = "temp"
  /\ status = CS_CONNECTED
  /\ wire # << >>
  /\ nRecv > 0


\* C20: an interface exists only for the scheme 's' or the scheme 't', and
\* it uses TLS exactly when the scheme is 's'.
C20_OnlyExactSchemes ==
  /\ protocol \in {"s", "t"}
  /\ use_ssl <=> protocol = "s"


\* The host name a certificate is issued for matches name: a DNS
\* subject-alternative-name matches or, when the certificate has no
\* subject-alternative-name, its last common name matches.
CommonNamePositions(subject) ==
  UNION { { << i, j >> : j \in { k \in DOMAIN subject[i] :
                                   subject[i][k][1] = "commonName" } }
          : i \in DOMAIN subject }

CertificateNames(peercert, name) ==
  /\ ~peercert.empty
  /\ IF peercert.hasSan
       THEN \E i \in DOMAIN peercert.san :
              peercert.san[i][1] = "DNS" /\ _match_hostname(name, peercert.san[i][2])
       ELSE LET pos == CommonNamePositions(peercert.subject)
            IN /\ pos # {}
               /\ LET last == CHOOSE p \in pos :
                                \A q \in pos : q[1] < p[1] \/ (q[1] = p[1] /\ q[2] <= p[2])
                  IN _match_hostname(name, peercert.subject[last[1]][last[2]][2])

\* C21: a first contact (no pin) whose handshake validated the server's
\* certificate against the CA bundle, the certificate naming the host, is
\* accepted: get_socket returns the socket of that handshake, the worker
\* gets Connected, and the pin, staging and rejected files are as before.
C21_CaTrustedPinsNothing ==
  (/\ attempt.is_new = "new"
   /\ attempt.caPresented # None
   /\ CertificateNames(PeerCert(attempt.caPresented), HostName(host)))
  => /\ attempt.ret = "sock"
     /\ attempt.validated = "ca"
     /\ attempt.presented = attempt.caPresented
     /\ StoreAsBefore


\* C22: decoding the text that pem produced for payload b and a label, with
\* the same label, raises nothing and returns b, for the empty payload and
\* for payloads whose base64 text takes one, two or three lines.
C22_PemRoundTrip ==
  codec.pc = "done" => (codec.exc = None /\ codec.ret = codec.b)

W_C22_ThreeLines ==
  /\ codec.pc = "done"
  /\ Len(b2a_base64(codec.b)) - 1 > 2 * LineLength
  /\ codec.name = Chars("CERTIFICATE")
  /\ codec.ret = codec.b

\* C23: once an attempt for a host without pin has returned (a socket or
\* None), no staging file of the host remains.
C23_NoStagingAfterReturn ==
  (attempt.is_new = "new" /\ attempt.ret \in {"sock", "none"})
    => temp[host] = NoFile

\* C24: when the handshake against the certificate retrieved in this attempt
\* fails with a verification error (ssl.SSLError with errno 1), the rejected
\* file of the host holds the retrieved certificate and nothing else,
\* whatever it held before; the staging file is gone, the host has no pin
\* and the connection has failed.
C24_MismatchRejects ==
  (attempt.is_new = "new" /\ attempt.outcome = "ssl1") =>
    /\ rej[host] = DER_cert_to_PEM_cert(attempt.captured)
    /\ temp[host] = NoFile
    /\ pin[host] = NoFile
    /\ attempt.ret = "none"
    /\ status = CS_FAILED /\ pc = "done"

W_C24_PriorRejectReplaced ==
  /\ attempt.is_new = "new" /\ attempt.outcome = "ssl1"
  /\ attempt.rejAtStart # NoFile
  /\ attempt.rejAtStart # rej[host]
  /\ rej[host] = DER_cert_to_PEM_cert(attempt.captured)

\* The handshake against an existing pin failed.
PinHandshakeFailed ==
  /\ attempt.is_new = "old"
  /\ attempt.outcome \in {"ssl1", "ssl", "sock"}

\* C25: when the handshake against an existing pin fails and the failure is
\* not a verification error, or the stored certificate does not parse, or
\* the stored certificate has not expired, the attempt fails and the pin,
\* staging and rejected files of the host are as they were before it.
C25_FailureKeepsStore ==
  (/\ PinHandshakeFailed
   /\ \/ attempt.outcome # "ssl1"
      \/ ~attempt.dateChecked
      \/ ~PinExpiredAtStart)
  => /\ StoreAsBefore
     /\ attempt.ret = "none"
     /\ status = CS_FAILED /\ pc = "done"

W_C25_WrongCertificate ==
  /\ PinHandshakeFailed
  /\ attempt.outcome = "ssl1" /\ attempt.dateChecked
  /\ ~PinExpiredAtStart
  /\ attempt.rejAtStart # NoFile
  /\ pin[host] = attempt.pinAtStart
  /\ status = CS_FAILED

\* C26: a worker whose get_socket gave no socket is Failed without having
\* been Connected, has sent no frame and has put exactly one status signal
\* on the owner's queue; a worker whose get_socket gave a socket has put a
\* status signal on the queue before anything else.
C26_AcquireFailureFails ==
  /\ (pc # "start" /\ attempt.ret # "sock") =>
       /\ status = CS_FAILED
       /\ wire = << >>
       /\ StatusSignals(response_queue) = 1
  /\ attempt.ret = "sock" =>
       (response_queue # << >> /\ Head(response_queue) = StatusSignal)

\* A keepalive request is put on the outbound queue in this step.
KeepaliveSubmitted ==
  request_queue' = Append(request_queue, [request |-> PingRequest, queue |-> None])

C27_Step ==
  /\ (pc = "ping" /\ pc' # "ping") =>
       IF now - ping_time > 60
         THEN KeepaliveSubmitted /\ ping_time' = now
         ELSE request_queue' = request_queue /\ ping_time' = ping_time
  /\ (gen' = gen /\ ping_time' # ping_time) =>
       (pc = "ping" /\ ping_time' - ping_time > 60)

\* C27: a pass of maybe_ping made more than 60 time units after the last
\* keepalive (ping_time, 0 before the first) puts one server.version
\* request on the outbound queue and sets ping_time to the current time,
\* any other pass leaves both alone; ping_time changes in no other way, so
\* two consecutive keepalives are more than 60 apart; and a connected
\* worker that has made its first pass has submitted a keepalive.
C27_KeepaliveWhenDue ==
  /\ [][C27_Step]_vars
  /\ [](pc \in {"send", "recv", "get"} => ping_time # 0)

W_C27_SecondKeepalive ==
  /\ pc = "send"
  /\ ping_time = now
  /\ KeepalivePending
  /\ \E i \in DOMAIN request_queue : request_queue[i].request = PingRequest

C28_Step ==
  (gen' = gen /\ pc = "ping" /\ pc' # "ping" /\ disconnect' # disconnect) =>
    /\ DOMAIN unanswered_requests # {}
    /\ now - request_time' > 10
    /\ now - recv_time > 10

\* C28: a pass of maybe_ping raises the stop flag only if, at its check, a
\* request is unanswered, more than 10 time units have passed since the
\* request timestamp and the last frame was received more than 10 time
\* units ago.
C28_StaleOnlyWhenAllThree == [][C28_Step]_vars

W_C28_ShutDownAsStale ==
  /\ pc = "send" /\ disconnect /\ nSubmit = 0
  /\ DOMAIN unanswered_requests # {}
  /\ now - request_time > 10
  /\ now - recv_time > 10

\* The last frame handed to pipe.send was not sent: pipe.send raised.
SendFailed == wire # << >> /\ ~wire[Len(wire)].ok

C29_Step ==
  /\ (gen' = gen /\ wire' # wire) =>         \* the head of the queue is handed to pipe.send
       /\ pc = "send"
       /\ Len(wire') = Len(wire) + 1
       /\ request_queue' = Tail(request_queue)
  /\ (pc = "send" /\ pc' # "send" /\ is_connected /\ wire' = wire) =>
       request_queue = << >>                \* the drain ends with the queue empty
  /\ (gen' = gen /\ ~SendFailed /\ SendFailed') =>
       /\ disconnect'
       /\ unanswered_requests' = unanswered_requests
       /\ message_id' = message_id
  /\ (gen' = gen /\ SendFailed) => wire' = wire

\* C29: send_requests sends the queued requests until the queue is empty;
\* when a send fails the stop flag is raised in the same step, the failing
\* request is not recorded as pending, its id is not used up, nothing is
\* sent afterwards, and the worker reaches Failed.
C29_SendFailureShutsDown ==
  /\ [][C29_Step]_vars
  /\ SendFailed ~> status = CS_FAILED

C30_Step ==
  \* pipe.get() timed out
  /\ (pc = "get" /\ pc' # "get" /\ nRecv' = nRecv /\ sock' = sock) =>
       /\ pc' = "loop"
       /\ UNCHANGED << status, disconnect, unanswered_requests, request_queue,
                       response_queue, caller_queue, server_version >>
  \* the remote side closed
  /\ (gen' = gen /\ sock' = "eof" /\ sock # "eof") => (pc = "get" /\ disconnect')
  \* a frame arrived: one frame per pass, handled by process_response once
  /\ (gen' = gen /\ nRecv' # nRecv) =>
       /\ pc = "get" /\ pc' # "get"
       /\ nRecv' = nRecv + 1
       /\ \E f \in Frames(message_id) :
            LET e == process_response(f, unanswered_requests)
            IN /\ unanswered_requests' = e.unanswered
               /\ exc' = e.exc
               /\ Len(response_queue') + Len(caller_queue') =
                    Len(response_queue) + Len(caller_queue)
                      + (IF e.target = "none" THEN 0 ELSE 1)

\* C30: in the receive step a timeout changes nothing and the loop goes on;
\* a close by the remote side raises the stop flag, and the worker then
\* reaches Failed; a frame is handled by process_response once, and one
\* pass of the loop handles at most one frame.
C30_ReceiveStep ==
  /\ [][C30_Step]_vars
  /\ sock = "eof" ~> status = CS_FAILED

\* The renormalized form of a notification.
Renormalized(f) ==
  IF f.method \in {"blockchain.headers.subscribe", "blockchain.numblocks.subscribe"}
    THEN [kind |-> "result", method |-> f.method, params |-> << >>,
          value |-> f.params[1], id |-> None]
  ELSE IF f.method = "blockchain.address.subscribe"
    THEN [kind |-> "result", method |-> f.method, params |-> << f.params[1] >>,
          value |-> f.params[2], id |-> None]
  ELSE [kind |-> "result", method |-> f.method, params |-> f.params,
        value |-> f.result, id |-> None]

C31_Step ==
  \A f \in AllNotificationFrames :
    PipeFrame(f) =>
      /\ exc' = None
      /\ response_queue' = Append(response_queue, Renormalized(f))
      /\ caller_queue' = caller_queue
      /\ unanswered_requests' = unanswered_requests

\* C31: a frame without id is put on the owner's shared queue, never on a
\* caller's queue, in renormalized form (headers and numblocks: result =
\* params[0], params = []; address: result = params[1], params =
\* [params[0]]) and without caller id, and leaves the pending map alone.
C31_NotificationDelivered == [][C31_Step]_vars

\* Some prefix of the label in the text has no postfix after it.
DanglingPrefix(s, name) ==
  \E i \in 0..(Len(s) - Len(Prefix(name))) :
    /\ SubSeq(s, i + 1, i + Len(Prefix(name))) = Prefix(name)
    /\ find(s, Postfix(name), i + Len(Prefix(name))) = -1

\* The payloads of the blocks among the pieces, in order.
RECURSIVE Payloads_of(_)
Payloads_of(pieces) ==
  IF pieces = << >> THEN << >>
  ELSE IF Head(pieces).kind = "block"
    THEN << Head(pieces).payload >> \o Payloads_of(Tail(pieces))
  ELSE Payloads_of(Tail(pieces))

Kinds(pieces) == { pieces[i].kind : i \in DOMAIN pieces }

\* C32 as stated: dePemList returns the payloads of all blocks in order,
\* the empty list for a text without prefix, and fails only when a prefix
\* has no postfix after it.
C32_FailsOnlyOnDanglingPrefix ==
  codec.pc = "done" =>
    /\ find(codec.s, Prefix(codec.name), 0) = -1 => (codec.exc = None /\ codec.ret = << >>)
    /\ codec.exc # None => DanglingPrefix(codec.s, codec.name)

\* C32 as amended: dePemList returns the empty list for a text without
\* prefix; for a text of well-formed blocks and other text it returns the
\* payloads of the blocks of the label in order; it fails with SyntaxError
\* when the first prefix it scans has no postfix after it, and also when
\* the text between a prefix and the next postfix is not valid base64; it
\* fails in no other case.
C32_BlocksInOrder ==
  codec.pc = "done" =>
    /\ find(codec.s, Prefix(codec.name), 0) = -1 => (codec.exc = None /\ codec.ret = << >>)
    /\ Kinds(codec.b) \subseteq {"block", "text", "other"} =>
         (codec.exc = None /\ codec.ret = Payloads_of(codec.b))
    /\ codec.exc # None =>
         /\ codec.exc = "SyntaxError"
         /\ Kinds(codec.b) \cap {"bad64", "dangling"} # {}
    /\ (Kinds(codec.b) \subseteq {"block", "text", "other", "bad64"}
          /\ "bad64" \in Kinds(codec.b)) => codec.exc = "SyntaxError"
    /\ (codec.b # << >> /\ codec.b[Len(codec.b)].kind = "dangling")
          => codec.exc = "SyntaxError"

W_C32_TwoBlocks ==
  /\ codec.pc = "done"
  /\ codec.exc = None
  /\ Len(codec.ret) = 2 /\ codec.ret[1] # codec.ret[2]
  /\ "text" \in Kinds(codec.b)

\* A certificate name matches a host: it is the host, or it is "*" followed
\* by a suffix that starts with "." and the host ends with that suffix.
NameMatches(n, h) ==
  \/ n = h
  \/ /\ Len(n) >= 2 /\ n[1] = "*" /\ n[2] = "."
     /\ \E k \in 1..Len(h) : SubSeq(h, k, Len(h)) = Tail(n)

SanMatches(peercert, h) ==
  \E i \in DOMAIN peercert.san :
    peercert.san[i][1] = "DNS" /\ NameMatches(peercert.san[i][2], h)

\* The last commonName of a subject of (attribute, value) pairs matches.
CommonNameMatches(peercert, h) ==
  /\ SubjectUnpacks(peercert.subject)
  /\ \E i \in DOMAIN peercert.subject :
       /\ peercert.subject[i][1] = "commonName"
       /\ \A j \in DOMAIN peercert.subject :
            j > i => peercert.subject[j][1] # "commonName"
       /\ NameMatches(peercert.subject[i][2], h)

\* C33: check_host_name accepts a certificate for a host only if a DNS
\* subject alternative name matches the host or, the certificate having no
\* subject alternative name, its last common name matches; an empty
\* certificate is rejected; with a subject alternative name present the
\* subject makes no difference.
C33_AcceptsOnlyMatchingNames ==
  codec.pc = "done" =>
    /\ codec.ret = "True" =>
         \/ codec.peercert.hasSan /\ SanMatches(codec.peercert, codec.name)
         \/ ~codec.peercert.hasSan /\ CommonNameMatches(codec.peercert, codec.name)
    /\ codec.peercert.empty => codec.ret = "False"
    /\ codec.peercert.hasSan =>
         codec.ret = (IF SanMatches(codec.peercert, codec.name) THEN "True" ELSE "False")

W_C33_CommonNameIgnored ==
  /\ codec.pc = "done"
  /\ codec.peercert.hasSan
  /\ codec.ret = "False"
  /\ codec.peercert.subject = << << "commonName", codec.name >> >>
  /\ \E i \in DOMAIN codec.peercert.san : codec.peercert.san[i][2] = Chars("*.h.x")

C34_Step ==
  (gen' = gen /\ disconnect) =>
    /\ wire' = wire                          \* no request frame is sent
    /\ nRecv' = nRecv                        \* no inbound frame is processed
    /\ unanswered_requests' = unanswered_requests
    /\ response_queue' \in {response_queue, Append(response_queue, StatusSignal)}
    /\ caller_queue' = caller_queue

\* C34: once the stop flag is set the worker sends no request frame and
\* processes no inbound frame, wherever in its loop it is when the owner
\* calls stop().
C34_NoDataAfterStop == [][C34_Step]_vars

\* The frames that were sent, in the order of sending.
Sent == SelectSeq(wire, LAMBDA w : w.ok)

C35_Step ==
  \* whatever goes on the wire is the head of the queue
  /\ (gen' = gen /\ wire' # wire) =>
       /\ request_queue # << >>
       /\ request_queue' = Tail(request_queue)
       /\ Len(wire') = Len(wire) + 1
       /\ wire'[Len(wire')].frame.method = Head(request_queue).request.method
       /\ wire'[Len(wire')].frame.params = Head(request_queue).request.params
  \* whatever else changes the queue adds one request at its end
  /\ (gen' = gen /\ wire' = wire /\ request_queue' # request_queue) =>
       /\ Len(request_queue') = Len(request_queue) + 1
       /\ SubSeq(request_queue', 1, Len(request_queue)) = request_queue

\* C35: requests go on the wire in the order in which they were put on the
\* outbound queue; the k-th frame sent has id k - 1; nothing is sent
\* while the worker is Opening, and what was submitted then stays queued.
C35_FifoAndIds ==
  /\ [][C35_Step]_vars
  /\ [](\A k \in DOMAIN Sent : Sent[k].frame.id = k - 1)
  /\ [](status = CS_OPENING => wire = << >>)

W_C35_HeldWhileOpening ==
  /\ Len(Sent) = 2 /\ Len(wire) = 2
  /\ Sent[1].frame.method = "blockchain.address.subscribe"
  /\ Sent[2].frame.method = "server.version"

\* The CA-validated handshake succeeded and the certificate does not name
\* the host.
CaTrustedOtherHost ==
  /\ attempt.is_new = "new"
  /\ attempt.caPresented # None
  /\ ~CertificateNames(PeerCert(attempt.caPresented), HostName(host))

\* C36: a first contact returns a CA-trusted connection only if the
\* CA-validated handshake succeeded and the certificate names the host;
\* when the handshake succeeded and the certificate does not name the
\* host, the attempt does not end there but goes on to retrieve a
\* certificate without validation, which becomes the pin when the
\* handshake against it succeeds.
C36_CaMismatchFallsBackToPinning ==
  /\ attempt.validated = "ca" =>
       /\ attempt.caPresented # None
       /\ CertificateNames(PeerCert(attempt.caPresented), HostName(host))
  /\ CaTrustedOtherHost =>
       \* the retrieval was entered: its handshake was made, or its socket
       \* could not be opened
       /\ attempt.unvalidated \/ attempt.ret = "none"
       /\ attempt.validated = "temp" => pin[host] = DER_cert_to_PEM_cert(attempt.captured)

\* C37: the connection attempt of an interface with scheme 't' leaves the
\* pin, staging and rejected files as they were, uses none of them, and
\* makes no TLS handshake of any kind.
C37_PlainTouchesNoStore ==
  (protocol = "t" /\ pc # "start") =>
    /\ attempt.is_new = "plain"
    /\ StoreAsBefore
    /\ attempt.cafile = NoFile
    /\ ~attempt.caTried /\ ~attempt.unvalidated
    /\ attempt.validated = "none" /\ attempt.outcome = "none"
    /\ attempt.presented = None /\ attempt.captured = None

W_C37_PlainBesidePin ==
  /\ protocol = "t" /\ status = CS_CONNECTED
  /\ attempt.ret = "sock"
  /\ pin[host] # NoFile /\ rej[host] # NoFile

C38_Order ==
  \* a response or notification on the owner's queue comes after the status
  \* signal put on connecting
  /\ \A i \in DOMAIN response_queue :
       response_queue[i].kind # "status" =>
         (i > 1 /\ response_queue[1] = StatusSignal /\ attempt.ret = "sock")
  /\ caller_queue # << >> =>
       (response_queue # << >> /\ response_queue[1] = StatusSignal /\ attempt.ret = "sock")
  \* a later status signal is the last item, put on failing
  /\ \A i \in DOMAIN response_queue :
       (response_queue[i].kind = "status" /\ i > 1) =>
         (i = Len(response_queue) /\ status = CS_FAILED)
  /\ status = CS_FAILED =>
       (response_queue # << >> /\ response_queue[Len(response_queue)] = StatusSignal)

C38_Step ==
  (gen' = gen /\ status = CS_FAILED) =>
    (response_queue' = response_queue /\ caller_queue' = caller_queue)

\* C38: of what one worker puts on the owner's queue, the status signal for
\* Connected comes before every response and notification, the status
\* signal for Failed is the last item, and once it is put nothing goes to
\* the owner's or to a caller's queue.
C38_SignalsFrameDeliveries == []C38_Order /\ [][C38_Step]_vars

W_C38_DeliveriesBetweenSignals ==
  /\ status = CS_FAILED
  /\ Len(response_queue) >= 3
  /\ response_queue[1] = StatusSignal
  /\ response_queue[2].kind # "status"
  /\ response_queue[Len(response_queue)] = StatusSignal
  /\ caller_queue # << >>

C39_Inv ==
  /\ \A k \in DOMAIN unanswered_requests : k < message_id
  /\ message_id = Len(Sent)
  /\ DOMAIN unanswered_requests \subseteq { Sent[k].frame.id : k \in DOMAIN Sent }

C39_Step ==
  \* a frame that was sent is pending under its id, one that was not is not
  /\ (gen' = gen /\ wire' # wire) =>
       IF wire'[Len(wire')].ok
         THEN /\ wire'[Len(wire')].frame.id = message_id
              /\ message_id \notin DOMAIN unanswered_requests
              /\ DOMAIN unanswered_requests' = DOMAIN unanswered_requests \cup {message_id}
              /\ request_queue' = Tail(request_queue)
         ELSE unanswered_requests' = unanswered_requests /\ message_id' = message_id
  \* a processed response removes its id, and nothing else does
  /\ (gen' = gen /\ nRecv' # nRecv) =>
       /\ \A k \in DOMAIN unanswered_requests' :
            k \in DOMAIN unanswered_requests /\ unanswered_requests'[k] = unanswered_requests[k]
       /\ IF answered' # answered
            THEN \* a response was delivered: its id was pending and is removed
                 LET i == answered'[Len(answered')]
                 IN /\ i \in DOMAIN unanswered_requests
                    /\ DOMAIN unanswered_requests' = DOMAIN unanswered_requests \ {i}
            ELSE IF /\ exc' = None
                    /\ response_queue' = response_queue
                    /\ caller_queue' = caller_queue
            THEN \* a response was consumed by the worker itself
                 \E i \in DOMAIN unanswered_requests :
                   /\ ConsumedInternally(unanswered_requests[i].method)
                   /\ DOMAIN unanswered_requests' = DOMAIN unanswered_requests \ {i}
            ELSE \* a notification, or a frame that ended the thread
                 unanswered_requests' = unanswered_requests
  /\ (gen' = gen /\ wire' = wire /\ nRecv' = nRecv) =>
       unanswered_requests' = unanswered_requests

\* C39: every pending id is smaller than the message id counter, the
\* counter is the number of frames sent, and an id is pending exactly from
\* the successful send of its frame until a response with that id is
\* processed; a request in the outbound queue is not pending.
C39_PendingMatchesSent == []C39_Inv /\ [][C39_Step]_vars

W_C39_SentAnsweredQueued ==
  /\ message_id = 2
  /\ DOMAIN unanswered_requests = {1}
  /\ request_queue # << >>

====
